---- MODULE Spec2Model ----
(***************************************************************************)
(* The Vancouver City FC report generators (qtzan/DATATHON-2025).          *)
(*                                                                         *)
(* Every script loads three spreadsheets (stadium operations, merchandise  *)
(* sales, fan engagement), cleans a few columns, aggregates, and prints.   *)
(* Four programs are modelled:                                             *)
(*   "analysis"  VancouverCityFCAnalysis      vancouver_city_fc_analysis.py*)
(*   "dashboard" VancouverCityFCDashboard     comprehensive_dashboard.py   *)
(*   "runner"    run_complete_analysis()      run_complete_analysis.py     *)
(*   "opeff"     operational_efficiency_analysis.py (__main__)             *)
(* The cleaning block of run_complete_analysis.py (lines 30-39) is the one *)
(* that the other function-style report scripts repeat verbatim.           *)
(*                                                                         *)
(* Three more programs have a specification of their own, each in its own *)
(* section below: create_gradient_colors of simple_custom_charts.py        *)
(* (SpecGradient), the converters convert_excel_to_csv.py and              *)
(* simple_convert.py (SpecConvert), and the slide deck written by          *)
(* powerpoint_style_report.py (SpecDeck).                                  *)
(*                                                                         *)
(* Data representation                                                     *)
(*   table   a sequence of rows; a row is a record whose DOMAIN is the set *)
(*           of columns the table has (a derived column is in the DOMAIN   *)
(*           only once the code has assigned it)                           *)
(*   cell    <<>> is a missing value (NaN / NaT); <<v>> holds the value v; *)
(*           a date cell is <<year, month, day>> as written in the sheet   *)
(*   money   an integer number of thousandths of a dollar, so that         *)
(*           round(2) (to the cent) is not the identity                    *)
(*   ratio   a / b is the reduced pair <<n, d>> with d > 0; <<1, 0>>,      *)
(*           <<-1, 0>> and <<0, 0>> are the floats inf, -inf and nan       *)
(*                                                                         *)
(* Left out of the model                                                   *)
(*   the charts and the static HTML; the formatting of a printed number    *)
(*   (report holds the value handed to the f-string); Arrival_Date; the    *)
(*   renaming of column headers (the sheets' headers have no blanks);      *)
(*   cells of the wrong type (a numeric cell is a number or is missing).   *)
(***************************************************************************)
EXTENDS Integers, Sequences, FiniteSets, TLC

VARIABLES
    script,       \* the program that runs
    pc,           \* the step that program executes next ("done", "failed")
    xlsx,         \* the three spreadsheets on disk (never written)
    stadium_ops,  \* the stadium operations table held by the program
    merchandise,  \* the merchandise sales table held by the program
    fanbase,      \* the fan engagement table held by the program
    report,       \* the numbers computed so far, by name
    completed,    \* the steps that have returned, in order
    n_colors,     \* create_gradient_colors: its argument
    colors,       \* create_gradient_colors: the list built so far
    gradient_i,   \* create_gradient_colors: the loop variable i
    disk,         \* the converters: the files in the working directory, by name
    installed,    \* the converters: the packages that can be imported
    stdout,       \* the converters: what has been printed, in order
    excel_i,      \* the converters: position of `for excel_file in excel_files`
    currentSlide,        \* the slide deck: index of the slide shown
    classList,           \* the slide deck: the classes of each .slide element
    current_slide_text,  \* the slide deck: text of the element #current-slide
    total_slides_text,   \* the slide deck: text of the element #total-slides
    prevBtn_disabled,    \* the slide deck: the disabled property of #prevBtn
    nextBtn_disabled,    \* the slide deck: the disabled property of #nextBtn
    event,               \* the slide deck: the last event dispatched
    n_events             \* the slide deck: how many events were dispatched

\* the state of create_gradient_colors (simple_custom_charts.py)
gradient_vars == <<n_colors, colors, gradient_i>>

\* the state of the two Excel-to-CSV converters
convert_vars == <<disk, installed, stdout, excel_i>>

\* the state of the page written by powerpoint_style_report.py
deck_vars ==
    <<currentSlide, classList, current_slide_text, total_slides_text,
      prevBtn_disabled, nextBtn_disabled, event, n_events>>

\* the state of the programs other than the four report generators
other_programs == <<gradient_vars, convert_vars, deck_vars>>

\* the state of the report generators, apart from script and pc
report_vars == <<xlsx, stadium_ops, merchandise, fanbase, report, completed>>

vars == <<script, pc, report_vars, other_programs>>

-----------------------------------------------------------------------------
(* Bounds of the model                                                     *)

\* longest spreadsheet table whose rows are enumerated
MaxRows == 3

-----------------------------------------------------------------------------
(* Cells and arithmetic                                                    *)

NaN == <<>>

isna(c) == c = NaN

notna(c) == c # NaN

fillna(c, v) == IF isna(c) THEN <<v>> ELSE c

\* Series.map(dict): a label that is no key of the dict becomes missing
map(c, mapping) ==
    IF isna(c) THEN NaN
    ELSE IF c[1] \in DOMAIN mapping THEN <<mapping[c[1]]>> ELSE NaN

\* pd.to_numeric(errors='coerce'): a cell that holds one number is kept,
\* anything else becomes missing
to_numeric(c) == IF Len(c) = 1 /\ c[1] \in Int THEN c ELSE NaN

Abs(n) == IF n < 0 THEN 0 - n ELSE n

RECURSIVE Gcd(_, _)
Gcd(a, b) == IF b = 0 THEN a ELSE Gcd(b, a % b)

\* float division: never raises, a zero divisor gives inf, -inf or nan
Div(a, b) ==
    IF b = 0 THEN (IF a > 0 THEN <<1, 0>> ELSE IF a < 0 THEN <<0 - 1, 0>> ELSE <<0, 0>>)
    ELSE LET g == Gcd(Abs(a), Abs(b))
             s == IF b < 0 THEN 0 - 1 ELSE 1
         IN  <<(s * a) \div g, (s * b) \div g>>

\* nearest integer to n / d (d > 0), a tie going to the even neighbour
RoundHalfEven(n, d) ==
    LET q == n \div d
        r == n % d
    IN  IF 2 * r < d THEN q
        ELSE IF 2 * r > d THEN q + 1
        ELSE IF q % 2 = 0 THEN q ELSE q + 1

\* .round(2) of an amount of money: to the nearest cent
Round2(x) == 10 * RoundHalfEven(x, 10)

-----------------------------------------------------------------------------
(* Table operations (pandas)                                               *)

\* df[col] = f(row), for every row; adds the column when it is new
assign(df, col, f(_)) ==
    [i \in 1..Len(df) |->
        [c \in (DOMAIN df[i]) \cup {col} |-> IF c = col THEN f(df[i]) ELSE df[i][c]]]

has_column(df, col) == \A i \in 1..Len(df) : col \in DOMAIN df[i]

RECURSIVE take(_, _, _)
take(df, keep, i) ==
    IF i > Len(df) THEN <<>>
    ELSE (IF i \in keep THEN <<df[i]>> ELSE <<>>) \o take(df, keep, i + 1)

\* df[mask]: the rows that satisfy p, in order
where(df, p(_)) == take(df, {i \in 1..Len(df) : p(df[i])}, 1)

\* drop_duplicates() whose result is thrown away: the table stays as it was
drop_duplicates_result_unused(df) == df

\* DataFrame.drop_duplicates(): the first of every set of equal rows is kept
drop_duplicates(df) ==
    take(df, {i \in 1..Len(df) : \A j \in 1..(i - 1) : df[j] # df[i]}, 1)

RECURSIVE sum_from(_, _, _)
sum_from(df, col, i) ==
    IF i > Len(df) THEN 0
    ELSE (IF isna(df[i][col]) THEN 0 ELSE df[i][col][1]) + sum_from(df, col, i + 1)

\* Series.sum(): missing values are skipped, the empty sum is 0
sum(df, col) == sum_from(df, col, 1)

\* Series.count(): the number of values that are not missing
count(df, col) == Cardinality({i \in 1..Len(df) : notna(df[i][col])})

\* Series.mean(): missing values are skipped, nan when nothing is left
mean(df, col) == Div(sum(df, col), count(df, col))

\* Series.sum() of a boolean column: the number of True
sum_bool(df, col) == Cardinality({i \in 1..Len(df) : df[i][col] = <<TRUE>>})

\* Series.mean() of a boolean column
mean_bool(df, col) == Div(sum_bool(df, col), count(df, col))

\* the keys of df.groupby(key): groupby drops the rows whose key is missing
group_keys(df, key) == {df[i][key][1] : i \in {j \in 1..Len(df) : notna(df[j][key])}}

\* a grouping that forgets its key: every group is the whole table
group_whole_table(df, key, k) == df

group(df, key, k) == where(df, LAMBDA r : r[key] = <<k>>)

\* df.groupby(key)[col].sum()
groupby_sum(df, key, col) ==
    [k \in group_keys(df, key) |-> sum(group(df, key, k), col)]

\* df.groupby(key)[col].mean()
groupby_mean(df, key, col) ==
    [k \in group_keys(df, key) |-> mean(group(df, key, k), col)]

\* df.groupby(key)[col].agg(['sum', 'count', 'mean']).round(2), for money
groupby_agg_round(df, key, col) ==
    [k \in group_keys(df, key) |->
        LET g == group(df, key, k)
        IN  [sum   |-> Round2(sum(g, col)),
             count |-> count(g, col),
             mean  |-> IF count(g, col) = 0 THEN NaN
                       ELSE <<10 * RoundHalfEven(sum(g, col), 10 * count(g, col))>>]]

\* df.groupby([key1, key2])[col].sum(): a row with either key missing is dropped
groupby2_sum(df, key1, key2, col) ==
    LET rows == where(df, LAMBDA r : notna(r[key1]) /\ notna(r[key2]))
        keys == {<<rows[i][key1][1], rows[i][key2][1]>> : i \in 1..Len(rows)}
    IN  [k \in keys |->
            sum(where(rows, LAMBDA r : r[key1] = <<k[1]>> /\ r[key2] = <<k[2]>>), col)]

\* the total of a Series indexed by group
RECURSIVE series_sum(_)
series_sum(s) ==
    IF DOMAIN s = {} THEN 0
    ELSE LET k == CHOOSE x \in DOMAIN s : TRUE
         IN  s[k] + series_sum([x \in (DOMAIN s) \ {k} |-> s[x]])

-----------------------------------------------------------------------------
(* Dates                                                                   *)

NaT == <<>>

is_leap(y) == (y % 4 = 0 /\ y % 100 # 0) \/ y % 400 = 0

\* a calendar in which February never has a 29th day
days_in_month_no_leap_day(y, m) ==
    IF m = 2 THEN 28
    ELSE IF m \in {4, 6, 9, 11} THEN 30 ELSE 31

days_in_month(y, m) ==
    IF m = 2 THEN (IF is_leap(y) THEN 29 ELSE 28)
    ELSE IF m \in {4, 6, 9, 11} THEN 30 ELSE 31

\* pd.to_datetime(errors='coerce') of one cell: a date that does not exist in
\* the calendar, like a missing one, becomes NaT and nothing is raised
to_datetime(c) ==
    IF Len(c) # 3 THEN NaT
    ELSE IF c[2] \in 1..12 /\ c[3] >= 1 /\ c[3] <= days_in_month(c[1], c[2]) THEN c
    ELSE NaT

\* Series.dt.month and Series.dt.year: missing for NaT
dt_month(c) == IF c = NaT THEN NaN ELSE <<c[2]>>

dt_year(c) == IF c = NaT THEN NaN ELSE <<c[1]>>

-----------------------------------------------------------------------------
(* The spreadsheets                                                        *)

RegionLabels == {<<"Canada">>, <<"US">>, <<"Mexico">>, <<"Europe">>, <<"Asia">>, <<"Brazil">>, NaN}

AgeLabels == {<<"18-25">>, NaN}

DateCells == {<<2024, 2, 29>>, <<2023, 2, 29>>, <<2023, 12, 31>>, NaN}

\* amounts below one cent, one cent, and a missing amount
PriceCells == {<<4>>, <<10>>, NaN}

\* a promoted online sale to Canada, and a plain team-store sale to the US
MerchTemplate ==
    [Item_Category |-> <<"Jersey">>, Channel |-> <<"Online">>,
     Customer_Region |-> <<"Canada">>, Customer_Age_Group |-> <<"18-25">>,
     Promotion |-> <<TRUE>>, Unit_Price |-> <<10>>, Selling_Date |-> <<2024, 2, 29>>]

MerchTemplateStore ==
    [MerchTemplate EXCEPT !.Channel = <<"Team Store">>, !.Customer_Region = <<"US">>,
                          !.Promotion = <<FALSE>>, !.Selling_Date = <<2023, 12, 31>>]

FanTemplate ==
    [Customer_Region |-> <<"Canada">>, Age_Group |-> <<"18-25">>,
     Games_Attended |-> <<3>>, Seasonal_Pass |-> <<TRUE>>]

\* tables on which every program runs to its end
BaseStadium ==
    << [Month |-> <<1>>, Source |-> <<"Tickets">>, Revenue |-> <<20>>] >>

BaseMerch == << MerchTemplate, MerchTemplateStore >>

BaseFan ==
    << FanTemplate,
       [FanTemplate EXCEPT !.Customer_Region = <<"US">>, !.Games_Attended = <<2>>,
                           !.Seasonal_Pass = <<FALSE>>] >>

MerchRegionRows == {[MerchTemplate EXCEPT !.Customer_Region = r] : r \in RegionLabels}

MerchAgeDateRows ==
    {[MerchTemplate EXCEPT !.Customer_Age_Group = a, !.Selling_Date = d] :
        a \in AgeLabels, d \in DateCells}

MerchPromoRows ==
    {[t EXCEPT !.Item_Category = c] :
        t \in {MerchTemplate, MerchTemplateStore}, c \in {<<"Jersey">>, NaN}}

MerchChannelRows ==
    {[t EXCEPT !.Unit_Price = u] : t \in {MerchTemplate, MerchTemplateStore}, u \in PriceCells}
    \cup {[MerchTemplate EXCEPT !.Channel = NaN, !.Unit_Price = u] : u \in PriceCells}

StadiumRows ==
    {[Month |-> m, Source |-> s, Revenue |-> v] :
        m \in {<<1>>, <<2>>, NaN}, s \in {<<"Tickets">>, NaN}, v \in {<<0 - 4>>, <<10>>}}

\* the members without an age group are the ones without a seasonal pass
FanRegionRows ==
    {[FanTemplate EXCEPT !.Customer_Region = r, !.Age_Group = a,
                         !.Seasonal_Pass = <<a # NaN>>] :
        r \in RegionLabels \ {<<"Mexico">>, <<"Asia">>}, a \in AgeLabels}

FanGameRows ==
    {[FanTemplate EXCEPT !.Games_Attended = g, !.Seasonal_Pass = p] :
        g \in {<<0>>, <<3>>, NaN}, p \in {<<TRUE>>, <<FALSE>>}}

\* every table of at most n rows drawn from Rows
Tables(Rows, n) == UNION {[1..k -> Rows] : k \in 0..n}

\* one table varies over a family of rows while the other two are fixed
Spreadsheets ==
    {[stadium |-> s, merch |-> BaseMerch, fan |-> BaseFan] : s \in Tables(StadiumRows, MaxRows - 1)}
    \cup {[stadium |-> BaseStadium, merch |-> m, fan |-> BaseFan] :
            m \in Tables(MerchRegionRows, MaxRows - 1) \cup Tables(MerchAgeDateRows, MaxRows - 1)
                  \cup Tables(MerchPromoRows, MaxRows) \cup Tables(MerchChannelRows, MaxRows - 1)}
    \cup {[stadium |-> BaseStadium, merch |-> BaseMerch, fan |-> f] :
            f \in Tables(FanRegionRows, MaxRows - 1) \cup Tables(FanGameRows, MaxRows - 1)}
    \cup {[stadium |-> <<>>, merch |-> <<>>, fan |-> <<>>]}

Scripts == {"analysis", "dashboard", "runner", "opeff"}

FirstStep(s) ==
    CASE s = "analysis"  -> "load_and_clean_data"
      [] s = "dashboard" -> "__init__"
      [] s = "runner"    -> "load_and_clean"
      [] s = "opeff"     -> "analyze_operational_efficiency"

\* create_gradient_colors has not been called
gradient_idle == n_colors = 0 /\ colors = <<>> /\ gradient_i = 0

\* no converter runs
convert_idle == disk = <<>> /\ installed = {} /\ stdout = <<>> /\ excel_i = 1

\* the page of powerpoint_style_report.py is not open
deck_idle ==
    /\ currentSlide = 0 /\ classList = <<>>
    /\ current_slide_text = "" /\ total_slides_text = ""
    /\ prevBtn_disabled = FALSE /\ nextBtn_disabled = FALSE
    /\ event = "none" /\ n_events = 0

other_programs_idle == gradient_idle /\ convert_idle /\ deck_idle

\* no report generator runs: nothing is read and nothing reported
reports_idle ==
    /\ xlsx = [stadium |-> <<>>, merch |-> <<>>, fan |-> <<>>]
    /\ stadium_ops = <<>> /\ merchandise = <<>> /\ fanbase = <<>>
    /\ report = <<>> /\ completed = <<>>

\* a program has been started and has not read anything yet
Init ==
    /\ script \in Scripts
    /\ pc = FirstStep(script)
    /\ xlsx \in Spreadsheets
    /\ stadium_ops = <<>>
    /\ merchandise = <<>>
    /\ fanbase = <<>>
    /\ report = <<>>
    /\ completed = <<>>
    /\ other_programs_idle

-----------------------------------------------------------------------------
(* Steps shared by the programs                                            *)

\* a step returns: the program goes on with `next`
Returns(step, next) ==
    /\ pc' = next
    /\ completed' = Append(completed, step)

\* a step raises (KeyError, IndexError, ValueError): the program ends there
Raises ==
    /\ pc' = "failed"
    /\ completed' = completed

\* the entries of `new` are added to the report
Reported(new) == new @@ report

\* Series.max() of a Series of group sums that is not empty
series_max(s) == CHOOSE v \in {s[k] : k \in DOMAIN s} : \A k \in DOMAIN s : s[k] <= v

\* df.groupby(key)[col].agg(['mean', 'count']).round(2) of a count of games;
\* the mean is kept in hundredths of a game
groupby_mean_count_round(df, key, col) ==
    [k \in group_keys(df, key) |->
        LET g == group(df, key, k)
        IN  [mean  |-> IF count(g, col) = 0 THEN NaN
                       ELSE <<RoundHalfEven(100 * sum(g, col), count(g, col))>>,
             count |-> count(g, col)]]

\* the increasing sequence of the elements of a finite set of integers
RECURSIVE sorted(_)
sorted(S) ==
    IF S = {} THEN <<>>
    ELSE LET m == CHOOSE x \in S : \A y \in S : x <= y
         IN  <<m>> \o sorted(S \ {m})

-----------------------------------------------------------------------------
(* VancouverCityFCAnalysis                                                 *)

\* a slip in the table: the US counted as domestic
region_mapping_analysis_us_domestic ==
    [Canada |-> "Domestic", US |-> "Domestic", Mexico |-> "International",
     Europe |-> "International", Asia |-> "International"]

region_mapping_analysis ==
    [Canada |-> "Domestic", US |-> "International", Mexico |-> "International",
     Europe |-> "International", Asia |-> "International"]

\* lines 50-51
analysis_clean_stadium(df) ==
    LET a == assign(df, "Revenue", LAMBDA r : to_numeric(r.Revenue))
    IN  assign(a, "Source", LAMBDA r : fillna(r.Source, "Unknown"))

\* lines 54-60 and 67-78
analysis_clean_merchandise(df) ==
    LET a == assign(df, "Unit_Price", LAMBDA r : to_numeric(r.Unit_Price))
        b == assign(a, "Selling_Date", LAMBDA r : to_datetime(r.Selling_Date))
        c == assign(b, "Customer_Region", LAMBDA r : fillna(r.Customer_Region, "Unknown"))
        d == assign(c, "Customer_Age_Group", LAMBDA r : fillna(r.Customer_Age_Group, "Unknown"))
        e == assign(d, "Item_Category", LAMBDA r : fillna(r.Item_Category, "Unknown"))
        f == assign(e, "Channel", LAMBDA r : fillna(r.Channel, "Unknown"))
    IN  IF has_column(f, "Customer_Region")
        THEN assign(f, "Customer_Region",
                    LAMBDA r : fillna(map(r.Customer_Region, region_mapping_analysis),
                                      "International"))
        ELSE f

\* lines 63-64 and 67-78
analysis_clean_fanbase(df) ==
    LET a == assign(df, "Customer_Region", LAMBDA r : fillna(r.Customer_Region, "Unknown"))
        b == assign(a, "Age_Group", LAMBDA r : fillna(r.Age_Group, "Unknown"))
    IN  IF has_column(b, "Customer_Region")
        THEN assign(b, "Customer_Region",
                    LAMBDA r : fillna(map(r.Customer_Region, region_mapping_analysis),
                                      "International"))
        ELSE b

\* Step 1 handing over to the revenue trends, past the exploratory analysis
load_and_clean_data_then_trends ==
    /\ script = "analysis" /\ pc = "load_and_clean_data"
    /\ stadium_ops' = drop_duplicates(analysis_clean_stadium(xlsx.stadium))
    /\ merchandise' = drop_duplicates(analysis_clean_merchandise(xlsx.merch))
    /\ fanbase' = drop_duplicates(analysis_clean_fanbase(xlsx.fan))
    /\ Returns("load_and_clean_data", "analyze_revenue_trends")
    /\ UNCHANGED <<other_programs, script, xlsx, report>>

\* Step 1: read the three sheets, clean them, drop duplicate rows
load_and_clean_data ==
    /\ script = "analysis" /\ pc = "load_and_clean_data"
    /\ stadium_ops' = drop_duplicates(analysis_clean_stadium(xlsx.stadium))
    /\ merchandise' = drop_duplicates(analysis_clean_merchandise(xlsx.merch))
    /\ fanbase' = drop_duplicates(analysis_clean_fanbase(xlsx.fan))
    /\ Returns("load_and_clean_data", "exploratory_data_analysis")
    /\ UNCHANGED <<other_programs, script, xlsx, report>>

\* Step 2: prints descriptive statistics, changes nothing
exploratory_data_analysis ==
    /\ script = "analysis" /\ pc = "exploratory_data_analysis"
    /\ Returns("exploratory_data_analysis", "analyze_revenue_trends")
    /\ UNCHANGED <<other_programs, script, xlsx, stadium_ops, merchandise, fanbase, report>>

\* Series.reset_index() of a grouped sum: one row per key, in key order
reset_index(s, col) ==
    LET keys == sorted(DOMAIN s)
    IN  [i \in 1..Len(keys) |-> [Month |-> keys[i], value |-> s[keys[i]], column |-> col]]

\* pd.merge(left, right, on='Month', how='inner'): the pairs of rows with equal keys
merge_inner(left, right) ==
    LET keys == sorted({left[i].Month : i \in 1..Len(left)} \cap {right[j].Month : j \in 1..Len(right)})
        pairs(m) == {<<i, j>> \in (1..Len(left)) \X (1..Len(right)) :
                        left[i].Month = m /\ right[j].Month = m}
        RECURSIVE rows(_, _)
        rows(m, P) ==
            IF P = {} THEN <<>>
            ELSE LET p == CHOOSE x \in P : \A y \in P : x[1] < y[1] \/ (x[1] = y[1] /\ x[2] <= y[2])
                 IN  <<[Month |-> m, Revenue |-> <<left[p[1]].value>>,
                        Merchandise_Revenue |-> <<right[p[2]].value>>]>> \o rows(m, P \ {p})
        RECURSIVE all(_)
        all(k) == IF k > Len(keys) THEN <<>> ELSE rows(keys[k], pairs(keys[k])) \o all(k + 1)
    IN  all(1)

\* pd.merge(left, right, on='Month', how='outer'): for every key of either
\* side, in key order, the pairs of rows with that key; a row without a
\* partner is kept with the other side's column missing
merge_outer(left, right) ==
    LET keys == sorted({left[i].Month : i \in 1..Len(left)} \cup {right[j].Month : j \in 1..Len(right)})
        L(m) == {i \in 1..Len(left) : left[i].Month = m}
        R(m) == {j \in 1..Len(right) : right[j].Month = m}
        RECURSIVE rows(_, _)
        rows(m, P) ==
            IF P = {} THEN <<>>
            ELSE LET p == CHOOSE x \in P : \A y \in P : x[1] < y[1] \/ (x[1] = y[1] /\ x[2] <= y[2])
                 IN  <<[Month |-> m,
                        Revenue |-> IF p[1] = 0 THEN NaN ELSE <<left[p[1]].value>>,
                        Merchandise_Revenue |-> IF p[2] = 0 THEN NaN ELSE <<right[p[2]].value>>]>>
                     \o rows(m, P \ {p})
        pairs(m) == IF L(m) = {} THEN {0} \X R(m)
                    ELSE IF R(m) = {} THEN L(m) \X {0}
                    ELSE L(m) \X R(m)
        RECURSIVE all(_)
        all(k) == IF k > Len(keys) THEN <<>> ELSE rows(keys[k], pairs(keys[k])) \o all(k + 1)
    IN  all(1)

\* pd.merge(stadium, merch, on='Month', how='outer').fillna(0) and the total
merge_monthly_revenue(monthly_stadium, monthly_merch) ==
    LET merged == merge_outer(reset_index(monthly_stadium, "Revenue"),
                              reset_index(monthly_merch, "Merchandise_Revenue"))
    IN  [i \in 1..Len(merged) |->
            LET rev == IF merged[i].Revenue = NaN THEN 0 ELSE merged[i].Revenue[1]
                mer == IF merged[i].Merchandise_Revenue = NaN THEN 0
                       ELSE merged[i].Merchandise_Revenue[1]
            IN  [Month |-> merged[i].Month, Revenue |-> rev, Merchandise_Revenue |-> mer,
                 Total_Revenue |-> rev + mer]]

\* the sum of a column of plain numbers
RECURSIVE column_total(_, _)
column_total(df, col) ==
    IF df = <<>> THEN 0 ELSE df[1][col] + column_total(Tail(df), col)

\* Step 3: monthly revenue of both streams; derives Sale_Month
analyze_revenue_trends ==
    /\ script = "analysis" /\ pc = "analyze_revenue_trends"
    /\ LET merch == assign(merchandise, "Sale_Month", LAMBDA r : dt_month(r.Selling_Date))
           monthly_revenue ==
               merge_monthly_revenue(groupby_sum(stadium_ops, "Month", "Revenue"),
                                     groupby_sum(merch, "Sale_Month", "Unit_Price"))
           total == column_total(monthly_revenue, "Total_Revenue")
       IN  /\ merchandise' = merch
           /\ IF monthly_revenue = <<>>
              THEN Raises /\ report' = report        \* idxmax() of an empty column
              ELSE /\ Returns("analyze_revenue_trends", "analyze_attendance_patterns")
                   /\ report' = Reported(
                        [monthly_revenue |-> monthly_revenue,
                         total_annual_revenue |-> total,
                         stadium_share |->
                             Div(column_total(monthly_revenue, "Revenue"), total),
                         merchandise_share |->
                             Div(column_total(monthly_revenue, "Merchandise_Revenue"), total)])
    /\ UNCHANGED <<other_programs, script, xlsx, stadium_ops, fanbase>>

\* Step 4: stadium revenue by source, games attended by age group and region
analyze_attendance_patterns ==
    /\ script = "analysis" /\ pc = "analyze_attendance_patterns"
    /\ report' = Reported(
            [source_revenue |-> groupby_sum(stadium_ops, "Source", "Revenue"),
             engagement_by_age |-> groupby_mean(fanbase, "Age_Group", "Games_Attended"),
             engagement_by_region |->
                 groupby_mean(fanbase, "Customer_Region", "Games_Attended")])
    /\ Returns("analyze_attendance_patterns", "analyze_merchandise_performance")
    /\ UNCHANGED <<other_programs, script, xlsx, stadium_ops, merchandise, fanbase>>

\* Step 5: merchandise revenue by category, region, promotion and channel
analyze_merchandise_performance ==
    /\ script = "analysis" /\ pc = "analyze_merchandise_performance"
    /\ LET category_revenue == groupby_sum(merchandise, "Item_Category", "Unit_Price")
           region_sales == groupby_sum(merchandise, "Customer_Region", "Unit_Price")
           promotion_analysis == groupby_agg_round(merchandise, "Promotion", "Unit_Price")
           channel_revenue == groupby_sum(merchandise, "Channel", "Unit_Price")
       IN  IF \/ DOMAIN category_revenue = {}           \* category_revenue.index[0]
              \/ DOMAIN region_sales = {}               \* region_sales.index[0]
              \/ TRUE \notin DOMAIN promotion_analysis  \* promotion_analysis.loc[True, 'sum']
              \/ FALSE \notin DOMAIN promotion_analysis
           THEN Raises /\ report' = report
           ELSE /\ Returns("analyze_merchandise_performance", "analyze_fanbase_engagement")
                /\ report' = Reported(
                     [category_revenue |-> category_revenue,
                      region_sales |-> region_sales,
                      channel_revenue |-> channel_revenue,
                      promotion_multiplier |->
                          Div(promotion_analysis[TRUE].sum, promotion_analysis[FALSE].sum),
                      merchandise_revenue |-> sum(merchandise, "Unit_Price")])
    /\ UNCHANGED <<other_programs, script, xlsx, stadium_ops, merchandise, fanbase>>

\* Step 6: games attended by age group, region and seasonal pass
analyze_fanbase_engagement ==
    /\ script = "analysis" /\ pc = "analyze_fanbase_engagement"
    /\ LET age_engagement == groupby_mean_count_round(fanbase, "Age_Group", "Games_Attended")
           region_engagement ==
               groupby_mean_count_round(fanbase, "Customer_Region", "Games_Attended")
           seasonal_analysis ==
               groupby_mean_count_round(fanbase, "Seasonal_Pass", "Games_Attended")
       IN  IF TRUE \notin DOMAIN seasonal_analysis \/ FALSE \notin DOMAIN seasonal_analysis
           THEN Raises /\ report' = report            \* seasonal_analysis.loc[True, 'mean']
           ELSE /\ Returns("analyze_fanbase_engagement", "generate_insights_and_recommendations")
                /\ report' = Reported(
                     [age_engagement |-> age_engagement,
                      region_engagement |-> region_engagement,
                      seasonal_pass_holders |-> sum_bool(fanbase, "Seasonal_Pass")])
    /\ UNCHANGED <<other_programs, script, xlsx, stadium_ops, merchandise, fanbase>>

\* the key metrics of lines 447-449 and 493-499
analysis_key_metrics_of(stadium, merch, fan) ==
    [total_revenue |-> sum(stadium, "Revenue") + sum(merch, "Unit_Price"),
     avg_games_attended |-> mean(fan, "Games_Attended"),
     seasonal_pass_rate |-> mean_bool(fan, "Seasonal_Pass"),
     total_members |-> Len(fan),
     total_sales |-> Len(merch)]

\* Step 7: the executive summary
generate_insights_and_recommendations ==
    /\ script = "analysis" /\ pc = "generate_insights_and_recommendations"
    /\ report' = Reported(
            [key_metrics |-> analysis_key_metrics_of(stadium_ops, merchandise, fanbase)])
    /\ Returns("generate_insights_and_recommendations", "return")
    /\ UNCHANGED <<other_programs, script, xlsx, stadium_ops, merchandise, fanbase>>

\* the steps of VancouverCityFCAnalysis.run_complete_analysis, in its order
analysis_steps ==
    << "load_and_clean_data", "exploratory_data_analysis", "analyze_revenue_trends",
       "analyze_attendance_patterns", "analyze_merchandise_performance",
       "analyze_fanbase_engagement", "generate_insights_and_recommendations" >>

\* the end of run_complete_analysis: prints ANALYSIS COMPLETE, returns the results
analysis_return ==
    /\ script = "analysis" /\ pc = "return"
    /\ report' = Reported(
            [ANALYSIS_COMPLETE |-> TRUE,
             result |-> [monthly_revenue |-> report.monthly_revenue,
                         age_engagement |-> report.age_engagement,
                         region_engagement |-> report.region_engagement,
                         key_metrics |-> report.key_metrics]])
    /\ pc' = "done"
    /\ UNCHANGED <<other_programs, script, xlsx, stadium_ops, merchandise, fanbase, completed>>

-----------------------------------------------------------------------------
(* run_complete_analysis.py: one function, modelled section by section     *)

\* a slip in the shorter table: Mexico counted as domestic
region_mapping_runner_mexico_domestic ==
    [Canada |-> "Domestic", US |-> "International", Mexico |-> "Domestic"]

region_mapping_runner ==
    [Canada |-> "Domestic", US |-> "International", Mexico |-> "International"]

runner_clean_merchandise(df) ==
    LET a == assign(df, "Customer_Region", LAMBDA r : fillna(r.Customer_Region, "International"))
        b == assign(a, "Customer_Age_Group", LAMBDA r : fillna(r.Customer_Age_Group, "Unknown"))
        c == assign(b, "Selling_Date", LAMBDA r : to_datetime(r.Selling_Date))
        d == assign(c, "Sale_Month", LAMBDA r : dt_month(r.Selling_Date))
    IN  IF has_column(d, "Customer_Region")
        THEN assign(d, "Customer_Region",
                    LAMBDA r : fillna(map(r.Customer_Region, region_mapping_runner),
                                      "International"))
        ELSE d

\* the remap without its trailing .fillna('International')
runner_clean_fanbase_no_fillna(df) ==
    IF has_column(df, "Customer_Region")
    THEN assign(df, "Customer_Region",
                LAMBDA r : map(r.Customer_Region, region_mapping_runner))
    ELSE df

runner_clean_fanbase(df) ==
    IF has_column(df, "Customer_Region")
    THEN assign(df, "Customer_Region",
                LAMBDA r : fillna(map(r.Customer_Region, region_mapping_runner),
                                  "International"))
    ELSE df

\* lines 24-41: read the three sheets and clean them
runner_load_and_clean ==
    /\ script = "runner" /\ pc = "load_and_clean"
    /\ stadium_ops' = xlsx.stadium
    /\ merchandise' = runner_clean_merchandise(xlsx.merch)
    /\ fanbase' = runner_clean_fanbase(xlsx.fan)
    /\ Returns("load_and_clean", "key_metrics")
    /\ UNCHANGED <<other_programs, script, xlsx, report>>

\* the total taken from the stadium table twice
runner_key_metrics_of_stadium_twice(stadium, merch, fan) ==
    [total_revenue |-> sum(stadium, "Revenue") + sum(stadium, "Revenue"),
     stadium_revenue |-> sum(stadium, "Revenue"),
     merchandise_revenue |-> sum(merch, "Unit_Price"),
     total_members |-> Len(fan),
     avg_games |-> mean(fan, "Games_Attended"),
     seasonal_pass_rate |-> mean_bool(fan, "Seasonal_Pass")]

\* lines 44-49
runner_key_metrics_of(stadium, merch, fan) ==
    [total_revenue |-> sum(stadium, "Revenue") + sum(merch, "Unit_Price"),
     stadium_revenue |-> sum(stadium, "Revenue"),
     merchandise_revenue |-> sum(merch, "Unit_Price"),
     total_members |-> Len(fan),
     avg_games |-> mean(fan, "Games_Attended"),
     seasonal_pass_rate |-> mean_bool(fan, "Seasonal_Pass")]

\* lines 43-57: the key metrics and the two revenue shares
runner_key_metrics ==
    /\ script = "runner" /\ pc = "key_metrics"
    /\ LET km == runner_key_metrics_of(stadium_ops, merchandise, fanbase)
       IN  report' = Reported(
                [key_metrics |-> km,
                 stadium_share |-> Div(km.stadium_revenue, km.total_revenue),
                 merchandise_share |-> Div(km.merchandise_revenue, km.total_revenue)])
    /\ Returns("key_metrics", "question_1")
    /\ UNCHANGED <<other_programs, script, xlsx, stadium_ops, merchandise, fanbase>>

\* Series.idxmax() raises on an empty Series
idxmax_raises(s) == DOMAIN s = {}

\* Series.idxmax() of a column of means that are all missing: depending on the
\* pandas version it returns nan with a warning or raises
idxmax_may_raise(s) == DOMAIN s # {} /\ \A k \in DOMAIN s : isna(s[k].mean)

\* lines 59-128: revenue by month, source and category
runner_question_1 ==
    /\ script = "runner" /\ pc = "question_1"
    /\ LET monthly_stadium == groupby_sum(stadium_ops, "Month", "Revenue")
           monthly_merchandise == groupby_sum(merchandise, "Sale_Month", "Unit_Price")
           source_revenue == groupby_sum(stadium_ops, "Source", "Revenue")
           category_revenue == groupby_sum(merchandise, "Item_Category", "Unit_Price")
       IN  IF \/ idxmax_raises(monthly_stadium) \/ idxmax_raises(monthly_merchandise)
              \/ idxmax_raises(source_revenue) \/ idxmax_raises(category_revenue)
           THEN Raises /\ report' = report
           ELSE /\ Returns("question_1", "question_2")
                /\ report' = Reported(
                     [monthly_stadium |-> monthly_stadium,
                      monthly_merchandise |-> monthly_merchandise,
                      source_revenue |-> source_revenue,
                      category_revenue |-> category_revenue])
    /\ UNCHANGED <<other_programs, script, xlsx, stadium_ops, merchandise, fanbase>>

\* lines 129-188: games attended by age group, region and seasonal pass
runner_question_2 ==
    /\ script = "runner" /\ pc = "question_2"
    /\ LET age_attendance == groupby_mean_count_round(fanbase, "Age_Group", "Games_Attended")
           region_attendance ==
               groupby_mean_count_round(fanbase, "Customer_Region", "Games_Attended")
           seasonal_impact ==
               groupby_mean_count_round(fanbase, "Seasonal_Pass", "Games_Attended")
           ok == /\ Returns("question_2", "question_3")
                 /\ report' = Reported(
                      [age_attendance |-> age_attendance,
                       region_attendance |-> region_attendance,
                       seasonal_impact |-> seasonal_impact])
       IN  IF \/ idxmax_raises(age_attendance)
              \/ TRUE \notin DOMAIN seasonal_impact \/ FALSE \notin DOMAIN seasonal_impact
           THEN Raises /\ report' = report
           ELSE IF idxmax_may_raise(age_attendance)
           THEN ok \/ (Raises /\ report' = report)
           ELSE ok
    /\ UNCHANGED <<other_programs, script, xlsx, stadium_ops, merchandise, fanbase>>

\* lines 189-248: merchandise by category, channel and promotion
runner_question_3 ==
    /\ script = "runner" /\ pc = "question_3"
    /\ LET category_analysis == groupby_agg_round(merchandise, "Item_Category", "Unit_Price")
           channel_analysis == groupby_agg_round(merchandise, "Channel", "Unit_Price")
           promotion_analysis == groupby_agg_round(merchandise, "Promotion", "Unit_Price")
       IN  IF \/ idxmax_raises(category_analysis)
              \/ "Online" \notin DOMAIN channel_analysis
              \/ "Team Store" \notin DOMAIN channel_analysis
              \/ TRUE \notin DOMAIN promotion_analysis
              \/ FALSE \notin DOMAIN promotion_analysis
           THEN Raises /\ report' = report
           ELSE /\ Returns("question_3", "question_4")
                /\ report' = Reported(
                     [category_analysis |-> category_analysis,
                      channel_analysis |-> channel_analysis,
                      promotion_analysis |-> promotion_analysis,
                      merchandise_revenue |-> sum(merchandise, "Unit_Price"),
                      channel_advantage |->
                          Div(channel_analysis["Online"].sum, channel_analysis["Team Store"].sum),
                      promotion_multiplier |->
                          Div(promotion_analysis[TRUE].sum, promotion_analysis[FALSE].sum)])
    /\ UNCHANGED <<other_programs, script, xlsx, stadium_ops, merchandise, fanbase>>

\* lines 249-303: charts of numbers computed before; the prints read
\* seasonal_impact, age_attendance and source_revenue again
runner_question_4 ==
    /\ script = "runner" /\ pc = "question_4"
    /\ IF idxmax_may_raise(report.age_attendance)
       THEN Returns("question_4", "question_5") \/ Raises
       ELSE Returns("question_4", "question_5")
    /\ UNCHANGED <<other_programs, script, xlsx, stadium_ops, merchandise, fanbase, report>>

\* lines 304-362: merchandise by region, channel and promotion, not rounded
runner_question_5 ==
    /\ script = "runner" /\ pc = "question_5"
    /\ LET merchandise_constraints == groupby_sum(merchandise, "Customer_Region", "Unit_Price")
           channel_constraints == groupby_sum(merchandise, "Channel", "Unit_Price")
           promotion_constraints == groupby_sum(merchandise, "Promotion", "Unit_Price")
       IN  IF \/ "International" \notin DOMAIN merchandise_constraints
              \/ "Online" \notin DOMAIN channel_constraints
              \/ TRUE \notin DOMAIN promotion_constraints
              \/ FALSE \notin DOMAIN promotion_constraints
           THEN Raises /\ report' = report
           ELSE /\ Returns("question_5", "question_6")
                /\ report' = Reported(
                     [merchandise_constraints |-> merchandise_constraints,
                      channel_constraints |-> channel_constraints,
                      international_focus |->
                          Div(merchandise_constraints["International"],
                              series_sum(merchandise_constraints)),
                      online_dominance |->
                          Div(channel_constraints["Online"], series_sum(channel_constraints)),
                      promotion_underperformance |->
                          Div(promotion_constraints[TRUE], promotion_constraints[FALSE])])
    /\ UNCHANGED <<other_programs, script, xlsx, stadium_ops, merchandise, fanbase>>

\* promotion_effectiveness.xs(flag, level='Promotion').sum(): the total of the
\* (category, promotion) groups with that promotion flag
xs_total(promotion_effectiveness, flag) ==
    LET keys == {k \in DOMAIN promotion_effectiveness : k[2] = flag}
    IN  series_sum([k \in keys |-> promotion_effectiveness[k]])

xs_raises(promotion_effectiveness, flag) ==
    \A k \in DOMAIN promotion_effectiveness : k[2] # flag

\* lines 363-429: prices by category, promotion by category
runner_question_6 ==
    /\ script = "runner" /\ pc = "question_6"
    /\ LET pricing_analysis == groupby_agg_round(merchandise, "Item_Category", "Unit_Price")
           promotion_effectiveness ==
               groupby2_sum(merchandise, "Item_Category", "Promotion", "Unit_Price")
           ok == /\ Returns("question_6", "executive_summary")
                 /\ report' = Reported(
                      [promotion_effectiveness |-> promotion_effectiveness,
                       promotion_multiplier_by_category |->
                           Div(xs_total(promotion_effectiveness, TRUE),
                               xs_total(promotion_effectiveness, FALSE))])
       IN  IF \/ xs_raises(promotion_effectiveness, TRUE)
              \/ xs_raises(promotion_effectiveness, FALSE)
              \/ idxmax_raises(pricing_analysis)
           THEN Raises /\ report' = report
           ELSE IF idxmax_may_raise(pricing_analysis)
           THEN ok \/ (Raises /\ report' = report)
           ELSE ok
    /\ UNCHANGED <<other_programs, script, xlsx, stadium_ops, merchandise, fanbase>>

\* lines 430-523: the summary chart and the closing text; the function returns
runner_executive_summary ==
    /\ script = "runner" /\ pc = "executive_summary"
    /\ Returns("executive_summary", "done")
    /\ UNCHANGED <<other_programs, script, xlsx, stadium_ops, merchandise, fanbase, report>>

-----------------------------------------------------------------------------
(* VancouverCityFCDashboard                                                *)

region_mapping_dashboard ==
    [Canada |-> "Domestic", US |-> "International", Mexico |-> "International"]

dashboard_clean_merchandise(df) ==
    LET a == assign(df, "Customer_Region", LAMBDA r : fillna(r.Customer_Region, "International"))
        b == assign(a, "Customer_Age_Group", LAMBDA r : fillna(r.Customer_Age_Group, "Unknown"))
        c == assign(b, "Selling_Date", LAMBDA r : to_datetime(r.Selling_Date))
        d == IF has_column(c, "Customer_Region")
             THEN assign(c, "Customer_Region",
                         LAMBDA r : fillna(map(r.Customer_Region, region_mapping_dashboard),
                                           "International"))
             ELSE c
        e == assign(d, "Sale_Month", LAMBDA r : dt_month(r.Selling_Date))
    IN  assign(e, "Sale_Year", LAMBDA r : dt_year(r.Selling_Date))

dashboard_clean_fanbase(df) ==
    IF has_column(df, "Customer_Region")
    THEN assign(df, "Customer_Region",
                LAMBDA r : fillna(map(r.Customer_Region, region_mapping_dashboard),
                                  "International"))
    ELSE df

\* a constructor whose load_data() does not call clean_data()
dashboard_init_without_clean_data ==
    /\ script = "dashboard" /\ pc = "__init__"
    /\ stadium_ops' = xlsx.stadium
    /\ merchandise' = xlsx.merch
    /\ fanbase' = xlsx.fan
    /\ Returns("__init__", "question_1_revenue_strategies")
    /\ UNCHANGED <<other_programs, script, xlsx, report>>

\* the constructor: load_data() reads the three sheets and calls clean_data()
dashboard_init ==
    /\ script = "dashboard" /\ pc = "__init__"
    /\ stadium_ops' = xlsx.stadium
    /\ merchandise' = dashboard_clean_merchandise(xlsx.merch)
    /\ fanbase' = dashboard_clean_fanbase(xlsx.fan)
    /\ Returns("__init__", "question_1_revenue_strategies")
    /\ UNCHANGED <<other_programs, script, xlsx, report>>

question_1_revenue_strategies ==
    /\ script = "dashboard" /\ pc = "question_1_revenue_strategies"
    /\ LET stadium_revenue == sum(stadium_ops, "Revenue")
           merchandise_revenue == sum(merchandise, "Unit_Price")
           total_revenue == stadium_revenue + merchandise_revenue
           monthly_stadium == groupby_sum(stadium_ops, "Month", "Revenue")
           monthly_merchandise == groupby_sum(merchandise, "Sale_Month", "Unit_Price")
       IN  IF idxmax_raises(monthly_stadium) \/ idxmax_raises(monthly_merchandise)
           THEN Raises /\ report' = report
           ELSE /\ Returns("question_1_revenue_strategies", "question_2_attendance_patterns")
                /\ report' = Reported(
                     [total_revenue |-> total_revenue,
                      stadium_revenue |-> stadium_revenue,
                      merchandise_revenue |-> merchandise_revenue,
                      stadium_share |-> Div(stadium_revenue, total_revenue),
                      merchandise_share |-> Div(merchandise_revenue, total_revenue),
                      monthly_stadium |-> monthly_stadium,
                      monthly_merchandise |-> monthly_merchandise,
                      source_revenue |-> groupby_sum(stadium_ops, "Source", "Revenue"),
                      category_revenue |->
                          groupby_sum(merchandise, "Item_Category", "Unit_Price")])
    /\ UNCHANGED <<other_programs, script, xlsx, stadium_ops, merchandise, fanbase>>

question_2_attendance_patterns ==
    /\ script = "dashboard" /\ pc = "question_2_attendance_patterns"
    /\ LET age_attendance == groupby_mean_count_round(fanbase, "Age_Group", "Games_Attended")
           region_attendance ==
               groupby_mean_count_round(fanbase, "Customer_Region", "Games_Attended")
           seasonal_impact ==
               groupby_mean_count_round(fanbase, "Seasonal_Pass", "Games_Attended")
           monthly_stadium == groupby_sum(stadium_ops, "Month", "Revenue")
           ok == /\ Returns("question_2_attendance_patterns", "question_3_merchandise_analysis")
                 /\ report' = Reported(
                      [age_attendance |-> age_attendance,
                       region_attendance |-> region_attendance,
                       seasonal_impact |-> seasonal_impact,
                       avg_games |-> mean(fanbase, "Games_Attended")])
       IN  IF \/ idxmax_raises(age_attendance)
              \/ "Domestic" \notin DOMAIN region_attendance
              \/ "International" \notin DOMAIN region_attendance
              \/ TRUE \notin DOMAIN seasonal_impact \/ FALSE \notin DOMAIN seasonal_impact
              \/ idxmax_raises(monthly_stadium)
           THEN Raises /\ report' = report
           ELSE IF idxmax_may_raise(age_attendance)
           THEN ok \/ (Raises /\ report' = report)
           ELSE ok
    /\ UNCHANGED <<other_programs, script, xlsx, stadium_ops, merchandise, fanbase>>

question_3_merchandise_analysis ==
    /\ script = "dashboard" /\ pc = "question_3_merchandise_analysis"
    /\ LET category_analysis == groupby_agg_round(merchandise, "Item_Category", "Unit_Price")
           channel_analysis == groupby_agg_round(merchandise, "Channel", "Unit_Price")
           promotion_analysis == groupby_agg_round(merchandise, "Promotion", "Unit_Price")
           regional_analysis == groupby_agg_round(merchandise, "Customer_Region", "Unit_Price")
           monthly_merchandise == groupby_sum(merchandise, "Sale_Month", "Unit_Price")
       IN  IF \/ idxmax_raises(category_analysis)
              \/ "Online" \notin DOMAIN channel_analysis
              \/ "Team Store" \notin DOMAIN channel_analysis
              \/ TRUE \notin DOMAIN promotion_analysis
              \/ FALSE \notin DOMAIN promotion_analysis
              \/ idxmax_raises(monthly_merchandise)
           THEN Raises /\ report' = report
           ELSE /\ Returns("question_3_merchandise_analysis", "question_4_matchday_experience")
                /\ report' = Reported(
                     [category_analysis |-> category_analysis,
                      channel_analysis |-> channel_analysis,
                      promotion_analysis |-> promotion_analysis,
                      regional_analysis |-> regional_analysis,
                      channel_advantage |->
                          Div(channel_analysis["Online"].sum, channel_analysis["Team Store"].sum),
                      promotion_multiplier |->
                          Div(promotion_analysis[TRUE].sum, promotion_analysis[FALSE].sum)])
    /\ UNCHANGED <<other_programs, script, xlsx, stadium_ops, merchandise, fanbase>>

question_4_matchday_experience ==
    /\ script = "dashboard" /\ pc = "question_4_matchday_experience"
    /\ LET source_revenue == groupby_sum(stadium_ops, "Source", "Revenue")
           age_engagement == groupby_mean(fanbase, "Age_Group", "Games_Attended")
           seasonal_data == groupby_mean(fanbase, "Seasonal_Pass", "Games_Attended")
           ok == /\ Returns("question_4_matchday_experience", "question_5_constraints_analysis")
                 /\ report' = Reported(
                      [total_members |-> Len(fanbase),
                       seasonal_pass_rate |->
                           Div(sum_bool(fanbase, "Seasonal_Pass"), Len(fanbase))])
       IN  IF \/ TRUE \notin DOMAIN seasonal_data \/ FALSE \notin DOMAIN seasonal_data
              \/ idxmax_raises(age_engagement)
              \/ idxmax_raises(source_revenue)
           THEN Raises /\ report' = report
           ELSE IF \A k \in DOMAIN age_engagement : age_engagement[k] = <<0, 0>>
           THEN ok \/ (Raises /\ report' = report)
           ELSE ok
    /\ UNCHANGED <<other_programs, script, xlsx, stadium_ops, merchandise, fanbase>>

question_5_constraints_analysis ==
    /\ script = "dashboard" /\ pc = "question_5_constraints_analysis"
    /\ LET merchandise_constraints == groupby_sum(merchandise, "Customer_Region", "Unit_Price")
           channel_constraints == groupby_sum(merchandise, "Channel", "Unit_Price")
           promotion_constraints == groupby_sum(merchandise, "Promotion", "Unit_Price")
       IN  IF \/ "International" \notin DOMAIN merchandise_constraints
              \/ "Online" \notin DOMAIN channel_constraints
              \/ TRUE \notin DOMAIN promotion_constraints
              \/ FALSE \notin DOMAIN promotion_constraints
           THEN Raises /\ report' = report
           ELSE /\ Returns("question_5_constraints_analysis", "question_6_data_driven_decisions")
                /\ report' = Reported(
                     [merchandise_constraints |-> merchandise_constraints,
                      channel_constraints |-> channel_constraints,
                      promotion_underperformance |->
                          Div(promotion_constraints[TRUE], promotion_constraints[FALSE])])
    /\ UNCHANGED <<other_programs, script, xlsx, stadium_ops, merchandise, fanbase>>

question_6_data_driven_decisions ==
    /\ script = "dashboard" /\ pc = "question_6_data_driven_decisions"
    /\ LET pricing_analysis == groupby_agg_round(merchandise, "Item_Category", "Unit_Price")
           promotion_effectiveness ==
               groupby2_sum(merchandise, "Item_Category", "Promotion", "Unit_Price")
           monthly_patterns == groupby_sum(merchandise, "Sale_Month", "Unit_Price")
           ok == /\ Returns("question_6_data_driven_decisions", "create_executive_summary")
                 /\ report' = Reported(
                      [promotion_effectiveness |-> promotion_effectiveness,
                       promotion_multiplier_by_category |->
                           Div(xs_total(promotion_effectiveness, TRUE),
                               xs_total(promotion_effectiveness, FALSE))])
       IN  IF \/ xs_raises(promotion_effectiveness, TRUE)
              \/ xs_raises(promotion_effectiveness, FALSE)
              \/ idxmax_raises(pricing_analysis)
              \/ idxmax_raises(monthly_patterns)
           THEN Raises /\ report' = report
           ELSE IF idxmax_may_raise(pricing_analysis)
           THEN ok \/ (Raises /\ report' = report)
           ELSE ok
    /\ UNCHANGED <<other_programs, script, xlsx, stadium_ops, merchandise, fanbase>>

\* lines 544-549
dashboard_key_metrics_of(stadium, merch, fan) ==
    [total_revenue |-> sum(stadium, "Revenue") + sum(merch, "Unit_Price"),
     stadium_revenue |-> sum(stadium, "Revenue"),
     merchandise_revenue |-> sum(merch, "Unit_Price"),
     total_members |-> Len(fan),
     avg_games |-> mean(fan, "Games_Attended"),
     seasonal_pass_rate |-> mean_bool(fan, "Seasonal_Pass")]

\* the last call of run_complete_dashboard, which then prints its closing text
create_executive_summary ==
    /\ script = "dashboard" /\ pc = "create_executive_summary"
    /\ report' = Reported(
            [key_metrics |-> dashboard_key_metrics_of(stadium_ops, merchandise, fanbase)])
    /\ Returns("create_executive_summary", "done")
    /\ UNCHANGED <<other_programs, script, xlsx, stadium_ops, merchandise, fanbase>>

-----------------------------------------------------------------------------
(* operational_efficiency_analysis.py: its two functions, in __main__ order; *)
(* each reads the sheets itself and cleans nothing                          *)

analyze_operational_efficiency ==
    /\ script = "opeff" /\ pc = "analyze_operational_efficiency"
    /\ stadium_ops' = xlsx.stadium
    /\ merchandise' = xlsx.merch
    /\ LET source_efficiency == groupby_agg_round(xlsx.stadium, "Source", "Revenue")
           \* Revenue_per_Event = sum / count, nan for a source without revenue values
           per_event == [k \in DOMAIN source_efficiency |->
                            Div(source_efficiency[k].sum, source_efficiency[k].count)]
           ok == /\ Returns("analyze_operational_efficiency", "analyze_pricing_promotions")
                 /\ report' = Reported(
                      [source_efficiency |-> source_efficiency,
                       revenue_per_event |-> per_event,
                       stadium_revenue |->
                           series_sum([k \in DOMAIN source_efficiency |->
                                          source_efficiency[k].sum])])
       IN  IF idxmax_raises(source_efficiency)
           THEN Raises /\ report' = report
           ELSE IF \A k \in DOMAIN per_event : per_event[k] = <<0, 0>>
           THEN ok \/ (Raises /\ report' = report)
           ELSE ok
    /\ UNCHANGED <<other_programs, script, xlsx, fanbase>>

\* promotion_impact.xs(flag, level='Promotion')['sum'].sum(): the total of the
\* rounded sums of the (category, promotion) groups with that flag
xs_rounded_total(df, flag) ==
    LET s == groupby2_sum(df, "Item_Category", "Promotion", "Unit_Price")
        keys == {k \in DOMAIN s : k[2] = flag}
    IN  series_sum([k \in keys |-> Round2(s[k])])

analyze_pricing_promotions ==
    /\ script = "opeff" /\ pc = "analyze_pricing_promotions"
    /\ merchandise' = xlsx.merch
    /\ LET merch == xlsx.merch
           pricing_analysis == groupby_agg_round(merch, "Item_Category", "Unit_Price")
           promotion_impact == groupby2_sum(merch, "Item_Category", "Promotion", "Unit_Price")
           channel_performance == groupby_agg_round(merch, "Channel", "Unit_Price")
           regional_pricing == groupby_agg_round(merch, "Customer_Region", "Unit_Price")
           ok == /\ Returns("analyze_pricing_promotions", "done")
                 /\ report' = Reported(
                      [channel_performance |-> channel_performance,
                       regional_pricing |-> regional_pricing,
                       promotion_multiplier |->
                           Div(xs_rounded_total(merch, TRUE), xs_rounded_total(merch, FALSE)),
                       channel_advantage |->
                           Div(channel_performance["Online"].sum,
                               channel_performance["Team Store"].sum)])
       IN  IF \/ xs_raises(promotion_impact, TRUE) \/ xs_raises(promotion_impact, FALSE)
              \/ idxmax_raises(pricing_analysis)
              \/ "Online" \notin DOMAIN channel_performance
              \/ "Team Store" \notin DOMAIN channel_performance
           THEN Raises /\ report' = report
           ELSE IF idxmax_may_raise(pricing_analysis)
           THEN ok \/ (Raises /\ report' = report)
           ELSE ok
    /\ UNCHANGED <<other_programs, script, xlsx, stadium_ops, fanbase>>

Next ==
    \/ load_and_clean_data
    \/ exploratory_data_analysis
    \/ analyze_revenue_trends
    \/ analyze_attendance_patterns
    \/ analyze_merchandise_performance
    \/ analyze_fanbase_engagement
    \/ generate_insights_and_recommendations
    \/ analysis_return
    \/ runner_load_and_clean
    \/ runner_key_metrics
    \/ runner_question_1
    \/ runner_question_2
    \/ runner_question_3
    \/ runner_question_4
    \/ runner_question_5
    \/ runner_question_6
    \/ runner_executive_summary
    \/ dashboard_init
    \/ question_1_revenue_strategies
    \/ question_2_attendance_patterns
    \/ question_3_merchandise_analysis
    \/ question_4_matchday_experience
    \/ question_5_constraints_analysis
    \/ question_6_data_driven_decisions
    \/ create_executive_summary
    \/ analyze_operational_efficiency
    \/ analyze_pricing_promotions

Spec == Init /\ [][Next]_vars

-----------------------------------------------------------------------------
(* simple_custom_charts.py: create_gradient_colors                          *)
(*                                                                         *)
(* A colour is the triple <<r, g, b>> that the f-string writes as          *)
(* 'rgb(r,g,b)'. ratio is the exact fraction i / (n_colors - 1); the float *)
(* product (end - start) * ratio truncates to the same integer as the      *)
(* exact one wherever the exact product is not a whole number, and it is   *)
(* whole only for i = 0 and i = n_colors - 1 as long as n_colors - 1 has   *)
(* no factor in common with 113 and 79, the two channel differences.      *)

\* longest list of colours asked for
MaxColors == 14

start_color == <<132, 169, 255>>

end_color == <<245, 248, 255>>

\* i / (n_colors - 1) whatever n_colors is
ratio_unguarded(i, n) == <<i, n - 1>>

\* ratio = i / (n_colors - 1) if n_colors > 1 else 0, as <<numerator, denominator>>
ratio(i, n) == IF n > 1 THEN <<i, n - 1>> ELSE <<0, 1>>

\* int(start + (end - start) * ratio): the channels only grow, so int() is the floor
channel(c, r) == start_color[c] + ((end_color[c] - start_color[c]) * r[1]) \div r[2]

\* the call: an empty list, the loop about to start
InitGradient ==
    /\ script = "simple_custom_charts" /\ pc = "for"
    /\ n_colors \in 0..MaxColors
    /\ colors = <<>>
    /\ gradient_i = 0
    /\ reports_idle /\ convert_idle /\ deck_idle

\* one pass of `for i in range(n_colors)`; a zero divisor raises ZeroDivisionError
gradient_append ==
    /\ script = "simple_custom_charts" /\ pc = "for"
    /\ gradient_i < n_colors
    /\ LET r == ratio(gradient_i, n_colors)
       IN  IF r[2] = 0
           THEN pc' = "failed" /\ UNCHANGED <<colors, gradient_i>>
           ELSE /\ colors' = Append(colors, <<channel(1, r), channel(2, r), channel(3, r)>>)
                /\ gradient_i' = gradient_i + 1
                /\ pc' = "for"
    /\ UNCHANGED <<script, n_colors, report_vars, convert_vars, deck_vars>>

\* range(n_colors) is exhausted: return colors
gradient_return ==
    /\ script = "simple_custom_charts" /\ pc = "for"
    /\ gradient_i >= n_colors
    /\ pc' = "done"
    /\ UNCHANGED <<script, gradient_vars, report_vars, convert_vars, deck_vars>>

NextGradient == gradient_append \/ gradient_return

SpecGradient == InitGradient /\ [][NextGradient]_vars

-----------------------------------------------------------------------------
(* convert_excel_to_csv.py and simple_convert.py                           *)
(*                                                                         *)
(* A file name is the sequence of its parts, <<stem, ".xlsx">>, so that    *)
(* str.replace can be modelled on it. disk maps the names of the files     *)
(* that exist to their content: <<"workbook">> (a spreadsheet that can be *)
(* read), <<"corrupt">> (a file that is no workbook), <<"csv", content>>. *)

excel_files ==
    << <<"BOLT UBC First Byte - Stadium Operations", ".xlsx">>,
       <<"BOLT UBC First Byte - Merchandise Sales", ".xlsx">>,
       <<"BOLT UBC First Byte - Fanbase Engagement", ".xlsx">> >>

\* str.replace(old, new): every occurrence of the part old becomes new
replace(name, old, new) == [k \in 1..Len(name) |-> IF name[k] = old THEN new ELSE name[k]]

\* os.path.exists
exists(name) == name \in DOMAIN disk

\* print(...)
print(text, name) == stdout' = stdout \o <<[text |-> text, file |-> name]>>

\* df.to_csv(csv_file) / csv.writer on open(csv_file, 'w'): creates or overwrites
write_csv(excel_file) ==
    LET csv_file == replace(excel_file, ".xlsx", ".csv")
    IN  disk' = [f \in (DOMAIN disk) \cup {csv_file} |->
                    IF f = csv_file THEN <<"csv", disk[excel_file]>> ELSE disk[f]]

\* the working directory holds any of the three spreadsheets, good or corrupt
InitConvert ==
    /\ script \in {"convert_excel_to_csv", "simple_convert"}
    /\ pc = IF script = "simple_convert" THEN "import openpyxl" ELSE "for excel_file"
    /\ \E present \in SUBSET {excel_files[k] : k \in 1..Len(excel_files)} :
          disk \in [present -> {<<"workbook">>, <<"corrupt">>}]
    /\ installed \in SUBSET {"openpyxl", "xlrd"}
    /\ stdout = <<>>
    /\ excel_i = 1
    /\ reports_idle /\ gradient_idle /\ deck_idle

\* one pass of the loop of the two openpyxl-based converters (pd.read_excel
\* reads .xlsx through openpyxl); nothing catches what reading raises
convert_one_file(reads) ==
    /\ excel_i <= Len(excel_files)
    /\ LET excel_file == excel_files[excel_i]
       IN  IF ~exists(excel_file)
           THEN /\ print("File not found", excel_file)
                /\ excel_i' = excel_i + 1
                /\ UNCHANGED <<pc, disk>>
           ELSE IF reads /\ disk[excel_file] = <<"workbook">>
           THEN /\ write_csv(excel_file)
                /\ stdout' = stdout \o <<[text |-> "Converting", file |-> excel_file],
                                         [text |-> "Saved as", file |-> replace(excel_file, ".xlsx", ".csv")]>>
                /\ excel_i' = excel_i + 1
                /\ UNCHANGED pc
           ELSE /\ print("Converting", excel_file)
                /\ pc' = "failed"
                /\ UNCHANGED <<disk, excel_i>>
    /\ UNCHANGED <<script, installed, report_vars, gradient_vars, deck_vars>>

\* convert_excel_to_csv.py: convert_excel_to_csv(), one file
convert_excel_to_csv_pandas ==
    /\ script = "convert_excel_to_csv" /\ pc = "for excel_file"
    /\ convert_one_file("openpyxl" \in installed)

\* the loop is over: the function, and the script, return
convert_return ==
    /\ script \in {"convert_excel_to_csv", "simple_convert"}
    /\ pc \in {"for excel_file", "for excel_file (xlrd)"}
    /\ excel_i > Len(excel_files)
    /\ pc' = "done"
    /\ UNCHANGED <<script, convert_vars, report_vars, gradient_vars, deck_vars>>

\* simple_convert.py: try: import openpyxl ... except ImportError
import_openpyxl ==
    /\ script = "simple_convert" /\ pc = "import openpyxl"
    /\ IF "openpyxl" \in installed
       THEN pc' = "for excel_file" /\ UNCHANGED stdout
       ELSE pc' = "import xlrd" /\ print("openpyxl not available. Trying alternative method...", <<>>)
    /\ UNCHANGED <<script, disk, installed, excel_i, report_vars, gradient_vars, deck_vars>>

\* simple_convert.py: convert_excel_to_csv(), one file
convert_excel_to_csv_openpyxl ==
    /\ script = "simple_convert" /\ pc = "for excel_file"
    /\ convert_one_file(TRUE)

\* simple_convert.py: the inner try: import xlrd ... except ImportError
import_xlrd ==
    /\ script = "simple_convert" /\ pc = "import xlrd"
    /\ IF "xlrd" \in installed
       THEN pc' = "for excel_file (xlrd)" /\ UNCHANGED stdout
       ELSE pc' = "done" /\ print("Neither openpyxl nor xlrd available. Please install one of them", <<>>)
    /\ UNCHANGED <<script, disk, installed, excel_i, report_vars, gradient_vars, deck_vars>>

\* an error of xlrd that no except clause catches: the script ends
xlrd_error_not_caught(excel_file) ==
    /\ print("Converting", excel_file)
    /\ pc' = "failed"
    /\ UNCHANGED <<disk, excel_i>>

\* what the pass does with an error of xlrd: caught, reported, the loop goes on
xlrd_error(excel_file) ==
    /\ stdout' = stdout \o <<[text |-> "Converting", file |-> excel_file],
                             [text |-> "Error", file |-> excel_file]>>
    /\ excel_i' = excel_i + 1
    /\ UNCHANGED <<pc, disk>>

\* simple_convert.py: convert_with_xlrd(), one file; xlrd reads a workbook
\* or refuses it as .xlsx, depending on its version
convert_with_xlrd ==
    /\ script = "simple_convert" /\ pc = "for excel_file (xlrd)"
    /\ excel_i <= Len(excel_files)
    /\ LET excel_file == excel_files[excel_i]
       IN  IF ~exists(excel_file)
           THEN /\ print("File not found", excel_file)
                /\ excel_i' = excel_i + 1
                /\ UNCHANGED <<pc, disk>>
           ELSE \/ /\ disk[excel_file] = <<"workbook">>
                   /\ write_csv(excel_file)
                   /\ stdout' = stdout \o <<[text |-> "Converting", file |-> excel_file],
                                            [text |-> "Saved as", file |-> replace(excel_file, ".xlsx", ".csv")]>>
                   /\ excel_i' = excel_i + 1
                   /\ UNCHANGED pc
                \/ xlrd_error(excel_file)
    /\ UNCHANGED <<script, installed, report_vars, gradient_vars, deck_vars>>

NextConvert ==
    \/ convert_excel_to_csv_pandas
    \/ convert_return
    \/ import_openpyxl
    \/ convert_excel_to_csv_openpyxl
    \/ import_xlrd
    \/ convert_with_xlrd

SpecConvert == InitConvert /\ [][NextConvert]_vars

-----------------------------------------------------------------------------
(* powerpoint_style_report.py: the page it writes                          *)
(*                                                                         *)
(* The script writes one HTML page; its behaviour is the behaviour of the  *)
(* page's inline script in a browser. Init is the document as parsed from  *)
(* the HTML, before the inline script has run; initialize is the run of    *)
(* the inline script, which is one uninterrupted task; after it every step *)
(* is one event handler run to completion. A click on a disabled button    *)
(* dispatches no click event, so the click actions are guarded by the      *)
(* disabled properties. A key press is dispatched whatever the state.      *)
(* e.preventDefault() has no effect on the state below and is left out.    *)

\* how many events one behaviour dispatches
MaxEvents == 10

\* the class attribute of each <div class="slide ..."> of the page, in
\* document order: what document.querySelectorAll('.slide') returns
slides ==
    << {"slide", "active"}, {"slide"}, {"slide"}, {"slide"}, {"slide"},
       {"slide"}, {"slide"}, {"slide"}, {"slide"} >>

totalSlides == Len(slides)

\* the keys pressed: the three the handler knows and one it does not
Keys == {"ArrowRight", " ", "ArrowLeft", "Enter"}

\* a showSlide that never removes the class 'active'
showSlide_keeps_active(n) ==
    LET shown == (n + totalSlides) % totalSlides IN
    /\ currentSlide' = shown
    /\ classList' = [classList EXCEPT ![shown] = @ \cup {"active"}]
    /\ current_slide_text' = ToString(shown + 1)
    /\ prevBtn_disabled' = (shown = 0)
    /\ nextBtn_disabled' = (shown = totalSlides - 1)

\* a showSlide that leaves the navigation buttons as they are
showSlide_buttons_untouched(n) ==
    LET shown == (n + totalSlides) % totalSlides
        removed == [classList EXCEPT ![currentSlide] = @ \ {"active"}]
    IN
    /\ currentSlide' = shown
    /\ classList' = [removed EXCEPT ![shown] = @ \cup {"active"}]
    /\ current_slide_text' = ToString(shown + 1)
    /\ UNCHANGED <<prevBtn_disabled, nextBtn_disabled>>

\* function showSlide(n)
showSlide(n) ==
    LET shown == (n + totalSlides) % totalSlides
        removed == [classList EXCEPT ![currentSlide] = @ \ {"active"}]
    IN
    /\ currentSlide' = shown
    /\ classList' = [removed EXCEPT ![shown] = @ \cup {"active"}]
    /\ current_slide_text' = ToString(shown + 1)
    /\ prevBtn_disabled' = (shown = 0)
    /\ nextBtn_disabled' = (shown = totalSlides - 1)

\* a changeSlide without the two bounds: showSlide wraps around
changeSlide_wraps(direction) ==
    showSlide(currentSlide + direction)

\* function changeSlide(direction)
changeSlide(direction) ==
    IF direction = 1 /\ currentSlide < totalSlides - 1
    THEN showSlide(currentSlide + 1)
    ELSE IF direction = 0 - 1 /\ currentSlide > 0
    THEN showSlide(currentSlide - 1)
    ELSE UNCHANGED <<currentSlide, classList, current_slide_text,
                     prevBtn_disabled, nextBtn_disabled>>

\* the document as the HTML gives it
InitDeck ==
    /\ script = "powerpoint_style_report"
    /\ pc = "load"
    /\ currentSlide = 0
    /\ classList = [i \in 0..(totalSlides - 1) |-> slides[i + 1]]
    /\ current_slide_text = "1"
    /\ total_slides_text = "9"
    /\ prevBtn_disabled = FALSE
    /\ nextBtn_disabled = FALSE
    /\ event = "none"
    /\ n_events = 0
    /\ reports_idle /\ gradient_idle /\ convert_idle

\* the inline script: the declarations, the text of #total-slides, showSlide(0)
initialize ==
    /\ pc = "load"
    /\ total_slides_text' = ToString(totalSlides)
    /\ showSlide(0)
    /\ pc' = "ready"
    /\ UNCHANGED <<script, event, n_events, report_vars, gradient_vars, convert_vars>>

\* one event is dispatched to its handler
dispatch(e) ==
    /\ pc = "ready"
    /\ n_events < MaxEvents
    /\ event' = e
    /\ n_events' = n_events + 1
    /\ UNCHANGED <<script, pc, total_slides_text, report_vars, gradient_vars, convert_vars>>

\* <button id="prevBtn" onclick="changeSlide(-1)">
click_prevBtn ==
    /\ ~prevBtn_disabled
    /\ dispatch("click prevBtn")
    /\ changeSlide(0 - 1)

\* <button id="nextBtn" onclick="changeSlide(1)">
click_nextBtn ==
    /\ ~nextBtn_disabled
    /\ dispatch("click nextBtn")
    /\ changeSlide(1)

\* document.addEventListener('keydown', ...)
keydown ==
    \E key \in Keys :
        /\ dispatch(key)
        /\ IF key = "ArrowRight" \/ key = " "
           THEN changeSlide(1)
           ELSE IF key = "ArrowLeft"
           THEN changeSlide(0 - 1)
           ELSE UNCHANGED <<currentSlide, classList, current_slide_text,
                            prevBtn_disabled, nextBtn_disabled>>

NextDeck ==
    \/ initialize
    \/ click_prevBtn
    \/ click_nextBtn
    \/ keydown

SpecDeck == InitDeck /\ [][NextDeck]_vars

-----------------------------------------------------------------------------
(* Properties                                                              *)

\* the program is one that cleans, and its cleaning step has returned
cleaned == script \in {"analysis", "dashboard", "runner"} /\ Len(completed) >= 1

column(df, col) == {df[i][col] : i \in 1..Len(df)}

\* C1: after the cleaning step of a report script, whatever the raw region
\* labels were (listed, unlisted or missing), every row of the merchandise
\* table and of the fan table has Customer_Region 'Domestic' or 'International'.
C1_RegionTwoValued ==
    cleaned =>
        /\ column(merchandise, "Customer_Region") \subseteq {<<"Domestic">>, <<"International">>}
        /\ column(fanbase, "Customer_Region") \subseteq {<<"Domestic">>, <<"International">>}

\* a cleaned fan table that came from a missing and an unlisted label
C1_Witness ==
    /\ cleaned /\ script = "runner"
    /\ {NaN, <<"Brazil">>} \subseteq column(xlsx.fan, "Customer_Region")
    /\ Len(fanbase) = 2

\* what the region remap is said to do to one raw label
remap_expected(c) == IF c = <<"Canada">> THEN <<"Domestic">> ELSE <<"International">>

\* C2: the remap sends 'Canada' to 'Domestic' and every other raw label
\* (listed, unlisted, missing) to 'International'. Row by row where the rows
\* are all kept; as sets of values where duplicate rows are dropped afterwards.
C2_RegionRemap ==
    cleaned =>
        /\ script \in {"runner", "dashboard"} =>
              /\ Len(merchandise) = Len(xlsx.merch) /\ Len(fanbase) = Len(xlsx.fan)
              /\ \A i \in 1..Len(merchandise) :
                    merchandise[i].Customer_Region = remap_expected(xlsx.merch[i].Customer_Region)
              /\ \A i \in 1..Len(fanbase) :
                    fanbase[i].Customer_Region = remap_expected(xlsx.fan[i].Customer_Region)
        /\ script = "analysis" =>
              /\ column(merchandise, "Customer_Region")
                    = {remap_expected(c) : c \in column(xlsx.merch, "Customer_Region")}
              /\ column(fanbase, "Customer_Region")
                    = {remap_expected(c) : c \in column(xlsx.fan, "Customer_Region")}

C2_Witness ==
    /\ cleaned /\ script = "analysis"
    /\ {<<"Canada">>, <<"US">>} \subseteq column(xlsx.merch, "Customer_Region")
    /\ column(merchandise, "Customer_Region") = {<<"Domestic">>, <<"International">>}

\* C5 as claimed: after the cleaning step of any report script no row has a
\* missing Customer_Region, Customer_Age_Group (merchandise) or Customer_Region,
\* Age_Group (fans).
C5_NoMissingRegionOrAge ==
    cleaned =>
        /\ NaN \notin column(merchandise, "Customer_Region")
        /\ NaN \notin column(merchandise, "Customer_Age_Group")
        /\ NaN \notin column(fanbase, "Customer_Region")
        /\ NaN \notin column(fanbase, "Age_Group")

\* C8: the two copies of the region cleaning agree on every raw value: what
\* the three-entry copy left in the tables is what the five-entry copy of
\* VancouverCityFCAnalysis computes from the same sheet, row by row.
C8_RegionCopiesAgree ==
    (cleaned /\ script \in {"runner", "dashboard"}) =>
        LET m == analysis_clean_merchandise(xlsx.merch)
            f == analysis_clean_fanbase(xlsx.fan)
        IN  /\ Len(m) = Len(merchandise) /\ Len(f) = Len(fanbase)
            /\ \A i \in 1..Len(m) :
                  merchandise[i].Customer_Region = m[i].Customer_Region
            /\ \A i \in 1..Len(f) :
                  fanbase[i].Customer_Region = f[i].Customer_Region

\* labels that only the five-entry table lists, beside a missing one
C8_Witness ==
    /\ cleaned /\ script = "runner"
    /\ {<<"Europe">>, <<"Mexico">>} \subseteq column(xlsx.merch, "Customer_Region")

\* the cells of the sheets that are dates of the calendar; 29 February 2023,
\* like an empty cell, is not one
CalendarDates == {<<2024, 2, 29>>, <<2023, 12, 31>>}

\* what a raw Selling_Date cell is said to become, with its month and year
parsed_expected(c) ==
    IF c \in CalendarDates
    THEN [Selling_Date |-> c, Sale_Month |-> <<c[2]>>, Sale_Year |-> <<c[1]>>]
    ELSE [Selling_Date |-> NaT, Sale_Month |-> NaN, Sale_Year |-> NaN]

\* the cleaning step never raises: a program that failed had cleaned before
cleaning_returns ==
    (script \in {"analysis", "dashboard", "runner"} /\ pc = "failed") => Len(completed) >= 1

RECURSIVE total_over(_, _, _)
total_over(df, col, I) ==
    IF I = {} THEN 0
    ELSE LET i == CHOOSE x \in I : TRUE
         IN  (IF df[i][col] = NaN THEN 0 ELSE df[i][col][1]) + total_over(df, col, I \ {i})

rows_with(df, col, v) == {i \in 1..Len(df) : df[i][col] = <<v>>}

\* revenue of the rows with the one value of col over revenue of the rows with the other
ratio_expected(df, col, v, w) ==
    Div(total_over(df, "Unit_Price", rows_with(df, col, v)),
        total_over(df, "Unit_Price", rows_with(df, col, w)))

\* C3 as claimed: every promotion multiplier a script reports is the sum of
\* Unit_Price over the rows of its merchandise table with Promotion true,
\* divided by the sum over the rows with Promotion false.
C3_PromotionMultiplierIsRatio ==
    \A f \in {"promotion_multiplier", "promotion_underperformance",
              "promotion_multiplier_by_category"} \cap DOMAIN report :
        report[f] = ratio_expected(merchandise, "Promotion", TRUE, FALSE)

\* C9 as claimed: the channel advantage a script reports is the sum of
\* Unit_Price over the 'Online' rows divided by the sum over the 'Team Store' rows.
C9_ChannelAdvantageIsRatio ==
    "channel_advantage" \in DOMAIN report =>
        report.channel_advantage = ratio_expected(merchandise, "Channel", "Online", "Team Store")

\* an amount in thousandths, to the nearest hundredth, ties to the even one
nearest_cent(x) ==
    LET down == x - (x % 10)
    IN  IF x % 10 < 5 THEN down
        ELSE IF x % 10 > 5 THEN down + 10
        ELSE IF (down \div 10) % 2 = 0 THEN down ELSE down + 10

\* C9, amended: the channel advantage is the 'Online' sum rounded to two
\* decimals divided by the 'Team Store' sum rounded to two decimals; it is the
\* ratio of the sums themselves when every price is a whole number of cents.
C9_ChannelAdvantageOfRoundedSums ==
    "channel_advantage" \in DOMAIN report =>
        LET online == total_over(merchandise, "Unit_Price", rows_with(merchandise, "Channel", "Online"))
            store == total_over(merchandise, "Unit_Price", rows_with(merchandise, "Channel", "Team Store"))
        IN  /\ report.channel_advantage = Div(nearest_cent(online), nearest_cent(store))
            /\ (\A i \in 1..Len(merchandise) :
                    merchandise[i].Unit_Price = NaN \/ merchandise[i].Unit_Price[1] % 10 = 0)
               => report.channel_advantage = Div(online, store)

\* the ratio was reported for a table whose online sales are below half a cent
C9_Witness ==
    /\ "channel_advantage" \in DOMAIN report
    /\ report.channel_advantage = <<0, 1>>
    /\ \E i \in rows_with(merchandise, "Channel", "Online") : merchandise[i].Unit_Price = <<4>>
    /\ \E i \in rows_with(merchandise, "Channel", "Team Store") : merchandise[i].Unit_Price = <<10>>

\* the total, and the number of rows, of the groups of an aggregation
RECURSIVE groups_total(_, _)
groups_total(agg, field) ==
    IF DOMAIN agg = {} THEN 0
    ELSE LET k == CHOOSE x \in DOMAIN agg : TRUE
         IN  agg[k][field] + groups_total([x \in (DOMAIN agg) \ {k} |-> agg[x]], field)

all_rows(df) == 1..Len(df)

\* C6 as claimed: the groupings run_complete_analysis reports lose no row. The
\* per-group sums of Revenue by Month and by Source add up to the stadium
\* table's Revenue total; those of Unit_Price by Sale_Month, Item_Category,
\* Channel and Customer_Region add up to the merchandise table's Unit_Price
\* total; the per-group counts add up to the table's number of rows.
C6_GroupsAddUpToTotal ==
    script = "runner" =>
        LET revenue == total_over(stadium_ops, "Revenue", all_rows(stadium_ops))
            prices == total_over(merchandise, "Unit_Price", all_rows(merchandise))
        IN  /\ \A f \in {"monthly_stadium", "source_revenue"} \cap DOMAIN report :
                  series_sum(report[f]) = revenue
            /\ \A f \in {"monthly_merchandise", "category_revenue",
                         "merchandise_constraints", "channel_constraints"} \cap DOMAIN report :
                  series_sum(report[f]) = prices
            /\ \A f \in {"category_analysis", "channel_analysis"} \cap DOMAIN report :
                  /\ groups_total(report[f], "sum") = prices
                  /\ groups_total(report[f], "count") = Len(merchandise)

\* C4 as claimed: the key metrics a report script prints are the ones each of
\* the other report scripts computes from the same three sheets.
C4_SameKeyMetrics ==
    (script \in {"analysis", "dashboard", "runner"} /\ "key_metrics" \in DOMAIN report) =>
        LET a == analysis_key_metrics_of(drop_duplicates(analysis_clean_stadium(xlsx.stadium)),
                                         drop_duplicates(analysis_clean_merchandise(xlsx.merch)),
                                         drop_duplicates(analysis_clean_fanbase(xlsx.fan)))
            r == runner_key_metrics_of(xlsx.stadium, runner_clean_merchandise(xlsx.merch),
                                       runner_clean_fanbase(xlsx.fan))
            d == dashboard_key_metrics_of(xlsx.stadium, dashboard_clean_merchandise(xlsx.merch),
                                          dashboard_clean_fanbase(xlsx.fan))
            k == report.key_metrics
            games == IF script = "analysis" THEN k.avg_games_attended ELSE k.avg_games
        IN  /\ \A o \in {a, r, d} :
                  /\ k.total_revenue = o.total_revenue
                  /\ k.total_members = o.total_members
                  /\ k.seasonal_pass_rate = o.seasonal_pass_rate
            /\ games = a.avg_games_attended /\ games = r.avg_games /\ games = d.avg_games
            /\ r.stadium_revenue = d.stadium_revenue
            /\ r.merchandise_revenue = d.merchandise_revenue
            /\ "merchandise_revenue" \in DOMAIN report =>
                  report.merchandise_revenue = r.merchandise_revenue

\* C10: VancouverCityFCAnalysis.run_complete_analysis runs its seven steps in
\* the one fixed order: what has completed is always a beginning of that order
\* and the step in progress is the next one of it, so nothing runs before
\* load_and_clean_data has returned; ANALYSIS COMPLETE and the result
\* dictionary are there exactly when the run has ended after all seven steps.
C10_FixedOrder ==
    script = "analysis" =>
        /\ Len(completed) <= Len(analysis_steps)
        /\ \A i \in 1..Len(completed) : completed[i] = analysis_steps[i]
        /\ pc \in {"failed", "return", "done"}
              \/ (Len(completed) < Len(analysis_steps) /\ pc = analysis_steps[Len(completed) + 1])
        /\ pc # "load_and_clean_data" => (completed # <<>> /\ completed[1] = "load_and_clean_data")
        /\ pc \in {"return", "done"} => completed = analysis_steps
        /\ ("ANALYSIS_COMPLETE" \in DOMAIN report) = (pc = "done")
        /\ ("result" \in DOMAIN report) = (pc = "done")

\* the run has ended with its result, after the seven steps
C10_Witness ==
    /\ script = "analysis" /\ pc = "done"
    /\ completed = analysis_steps
    /\ report.ANALYSIS_COMPLETE /\ report.result.key_metrics.total_members = 2

\* the months that occur in a table
months_of(df, col) == {df[i][col][1] : i \in {j \in 1..Len(df) : df[j][col] # NaN}}

\* C15: the monthly revenue table of analyze_revenue_trends has every month of
\* the stadium table or of the merchandise Sale_Month exactly once and no other
\* month; each of its rows holds the month's stadium Revenue and its
\* Merchandise_Revenue, 0 for a stream without rows in that month, and their
\* sum as Total_Revenue.
C15_OuterJoinOfMonths ==
    (script = "analysis" /\ "monthly_revenue" \in DOMAIN report) =>
        LET mr == report.monthly_revenue
            months == months_of(stadium_ops, "Month") \cup months_of(merchandise, "Sale_Month")
        IN  /\ \A m \in months : Cardinality({i \in 1..Len(mr) : mr[i].Month = m}) = 1
            /\ \A i \in 1..Len(mr) :
                  /\ mr[i].Month \in months
                  /\ mr[i].Revenue
                        = total_over(stadium_ops, "Revenue", rows_with(stadium_ops, "Month", mr[i].Month))
                  /\ mr[i].Merchandise_Revenue
                        = total_over(merchandise, "Unit_Price",
                                     rows_with(merchandise, "Sale_Month", mr[i].Month))
                  /\ mr[i].Total_Revenue = mr[i].Revenue + mr[i].Merchandise_Revenue

\* a month in both streams, one with stadium revenue only, one with sales only
C15_Witness ==
    /\ script = "analysis" /\ "monthly_revenue" \in DOMAIN report
    /\ \E i, j, k \in 1..Len(report.monthly_revenue) :
          LET mr == report.monthly_revenue
          IN  /\ mr[i].Revenue > 0 /\ mr[i].Merchandise_Revenue > 0
              /\ mr[j].Revenue > 0 /\ mr[j].Merchandise_Revenue = 0
              /\ mr[k].Revenue = 0 /\ mr[k].Merchandise_Revenue > 0

no_equal_rows(df) == \A i, j \in 1..Len(df) : i # j => df[i] # df[j]

\* C16: once VancouverCityFCAnalysis.load_and_clean_data has returned, none of
\* the three tables has two rows that are equal in every column.
C16_NoDuplicateRows ==
    (script = "analysis" /\ Len(completed) >= 1) =>
        no_equal_rows(stadium_ops) /\ no_equal_rows(merchandise) /\ no_equal_rows(fanbase)

\* two sales that differ in the sheet only by region label, US and Mexico,
\* are one row after cleaning
C16_Witness ==
    /\ script = "analysis" /\ Len(completed) >= 1
    /\ no_equal_rows(xlsx.merch)
    /\ Len(xlsx.merch) = 2 /\ Len(merchandise) = 1
    /\ merchandise[1].Customer_Region = <<"International">>

\* the methods run_complete_dashboard calls on the constructed dashboard
dashboard_methods ==
    {"question_1_revenue_strategies", "question_2_attendance_patterns",
     "question_3_merchandise_analysis", "question_4_matchday_experience",
     "question_5_constraints_analysis", "question_6_data_driven_decisions",
     "create_executive_summary"}

\* C17: whenever a question_* method or create_executive_summary of the
\* dashboard is about to run, the constructor has returned: the three tables
\* hold the rows of the three sheets, Customer_Region of the merchandise and
\* fan tables is 'Domestic' or 'International', and the merchandise table has
\* its Sale_Month column.
C17_CleanedAtConstruction ==
    (script = "dashboard" /\ pc \in dashboard_methods) =>
        /\ completed # <<>> /\ completed[1] = "__init__"
        /\ stadium_ops = xlsx.stadium
        /\ Len(merchandise) = Len(xlsx.merch) /\ Len(fanbase) = Len(xlsx.fan)
        /\ column(merchandise, "Customer_Region") \subseteq {<<"Domestic">>, <<"International">>}
        /\ column(fanbase, "Customer_Region") \subseteq {<<"Domestic">>, <<"International">>}
        /\ \A i \in 1..Len(merchandise) : "Sale_Month" \in DOMAIN merchandise[i]

\* the last method is about to run on sheets with a missing region label
C17_Witness ==
    /\ script = "dashboard" /\ pc = "create_executive_summary"
    /\ NaN \in column(xlsx.fan, "Customer_Region")
    /\ merchandise # <<>> /\ fanbase # <<>> /\ stadium_ops # <<>>

\* no amount of the two revenue tables is negative
no_negative_revenue ==
    /\ \A i \in 1..Len(stadium_ops) : stadium_ops[i].Revenue = NaN \/ stadium_ops[i].Revenue[1] >= 0
    /\ \A i \in 1..Len(merchandise) :
          merchandise[i].Unit_Price = NaN \/ merchandise[i].Unit_Price[1] >= 0

\* the stadium revenue, merchandise revenue and total a script reports next
\* to its two shares
reported_revenues ==
    CASE script = "runner" ->
            <<report.key_metrics.stadium_revenue, report.key_metrics.merchandise_revenue,
              report.key_metrics.total_revenue>>
      [] script = "dashboard" ->
            <<report.stadium_revenue, report.merchandise_revenue, report.total_revenue>>
      [] script = "analysis" ->
            <<column_total(report.monthly_revenue, "Revenue"),
              column_total(report.monthly_revenue, "Merchandise_Revenue"),
              report.total_annual_revenue>>

\* C20: in every script that reports revenue shares the total revenue is the
\* stadium revenue plus the merchandise revenue; when that total is positive
\* and no revenue value is negative, each share is between 0 and 1 and the two
\* shares add up to 1.
C20_SharesAddUp ==
    (script \in {"analysis", "dashboard", "runner"} /\ "stadium_share" \in DOMAIN report) =>
        LET r == reported_revenues
            s == report.stadium_share
            m == report.merchandise_share
        IN  /\ r[3] = r[1] + r[2]
            /\ (r[3] > 0 /\ no_negative_revenue) =>
                  /\ s[2] > 0 /\ 0 <= s[1] /\ s[1] <= s[2]
                  /\ m[2] > 0 /\ 0 <= m[1] /\ m[1] <= m[2]
                  /\ s[1] * m[2] + m[1] * s[2] = s[2] * m[2]
                  /\ s[1] * r[3] = r[1] * s[2]
                  /\ m[1] * r[3] = r[2] * m[2]

\* shares of one third and two thirds
C20_Witness ==
    /\ script = "runner" /\ "stadium_share" \in DOMAIN report
    /\ no_negative_revenue
    /\ report.stadium_share = <<1, 3>> /\ report.merchandise_share = <<2, 3>>

\* C18: create_gradient_colors(n) never raises and returns n colours; for
\* n >= 2 the first is rgb(132,169,255), the last is rgb(245,248,255) and no
\* channel decreases along the list; for n = 1 the list is rgb(132,169,255) alone.
C18_Gradient ==
    script = "simple_custom_charts" =>
        /\ pc # "failed"
        /\ pc = "done" =>
              /\ Len(colors) = n_colors
              /\ n_colors >= 2 =>
                    /\ colors[1] = <<132, 169, 255>>
                    /\ colors[n_colors] = <<245, 248, 255>>
                    /\ \A k \in 1..(n_colors - 1) : \A c \in 1..3 : colors[k][c] <= colors[k + 1][c]
              /\ n_colors = 1 => colors = << <<132, 169, 255>> >>

\* a list of five colours has been returned, its middle one halfway
C18_Witness ==
    /\ script = "simple_custom_charts" /\ pc = "done"
    /\ n_colors = 5 /\ Len(colors) = 5
    /\ colors[3] = <<188, 208, 255>>

\* the CSV that belongs to the k-th spreadsheet
csv_of(k) == <<excel_files[k][1], ".csv">>

printed(text, name) == \E j \in 1..Len(stdout) : stdout[j] = [text |-> text, file |-> name]

finished == pc \in {"done", "failed"}

\* the run goes through a convert_excel_to_csv function
openpyxl_path ==
    script = "convert_excel_to_csv" \/ (script = "simple_convert" /\ "openpyxl" \in installed)

\* no spreadsheet has been written to
sources_untouched ==
    \A k \in 1..Len(excel_files) :
        exists(excel_files[k]) => disk[excel_files[k]] \in {<<"workbook">>, <<"corrupt">>}

\* C11 as claimed: when a convert_excel_to_csv run has ended, every one of the
\* three spreadsheets that exists has its CSV, named .csv for .xlsx; every one
\* that does not exist was reported 'File not found' and has none; and no
\* spreadsheet was modified.
C11_EveryExistingFileConverted ==
    (finished /\ openpyxl_path) =>
        /\ \A k \in 1..Len(excel_files) :
              IF exists(excel_files[k])
              THEN csv_of(k) \in DOMAIN disk
              ELSE printed("File not found", excel_files[k]) /\ csv_of(k) \notin DOMAIN disk
        /\ sources_untouched

\* the spreadsheet exists and reading it raises: it is no workbook, or
\* pd.read_excel finds no openpyxl
unreadable(k) ==
    /\ exists(excel_files[k])
    /\ disk[excel_files[k]] # <<"workbook">>
          \/ (script = "convert_excel_to_csv" /\ "openpyxl" \notin installed)

\* the first spreadsheet whose reading raises, past the list if there is none
first_unreadable ==
    IF \E k \in 1..Len(excel_files) : unreadable(k)
    THEN CHOOSE k \in 1..Len(excel_files) :
            unreadable(k) /\ \A j \in 1..(k - 1) : ~unreadable(j)
    ELSE Len(excel_files) + 1

\* What the code does where C11 fails: the files are taken in order. Up to
\* the first existing file that cannot be read, every file that exists has
\* its CSV, named .csv for .xlsx, and every file that does not exist was
\* reported 'File not found' and skipped. An existing file that cannot be read ends the run with an
\* exception: it has no CSV and the files after it are neither converted nor
\* reported. No spreadsheet is ever modified.
C11_ConvertedUpToFirstUnreadable ==
    /\ (script \in {"convert_excel_to_csv", "simple_convert"}) => sources_untouched
    /\ (finished /\ openpyxl_path) =>
          /\ (pc = "failed") = (first_unreadable <= Len(excel_files))
          /\ \A k \in 1..Len(excel_files) :
                IF k >= first_unreadable
                THEN csv_of(k) \notin DOMAIN disk /\ ~printed("File not found", excel_files[k])
                ELSE IF exists(excel_files[k])
                THEN csv_of(k) \in DOMAIN disk /\ disk[csv_of(k)] = <<"csv", <<"workbook">>>>
                ELSE printed("File not found", excel_files[k]) /\ csv_of(k) \notin DOMAIN disk

\* convert_excel_to_csv.py has returned: the first spreadsheet was missing and
\* skipped, the other two were converted
C11_Witness ==
    /\ script = "convert_excel_to_csv" /\ pc = "done"
    /\ ~exists(excel_files[1]) /\ printed("File not found", excel_files[1])
    /\ csv_of(2) \in DOMAIN disk /\ csv_of(3) \in DOMAIN disk

\* C19: in simple_convert the xlrd conversion is entered only when openpyxl
\* cannot be imported; with neither package the run ends with the installation
\* instructions and no file converted; the xlrd conversion never ends in an
\* exception, and when it has returned every spreadsheet that exists was
\* converted or had its error reported and every missing one was reported.
C19_XlrdFallback ==
    script = "simple_convert" =>
        /\ (pc \in {"import xlrd", "for excel_file (xlrd)"}
                \/ printed("openpyxl not available. Trying alternative method...", <<>>))
              => "openpyxl" \notin installed
        /\ (pc = "done" /\ installed = {}) =>
              /\ printed("Neither openpyxl nor xlrd available. Please install one of them", <<>>)
              /\ \A k \in 1..Len(excel_files) :
                    csv_of(k) \notin DOMAIN disk /\ ~printed("Converting", excel_files[k])
        /\ "openpyxl" \notin installed =>
              /\ pc # "failed"
              /\ (pc = "done" /\ "xlrd" \in installed) =>
                    \A k \in 1..Len(excel_files) :
                        IF exists(excel_files[k])
                        THEN \/ printed("Error", excel_files[k])
                             \/ (printed("Saved as", csv_of(k)) /\ csv_of(k) \in DOMAIN disk)
                        ELSE printed("File not found", excel_files[k])

\* the xlrd conversion has returned: the first spreadsheet gave an error, the
\* second was converted after it
C19_Witness ==
    /\ script = "simple_convert" /\ pc = "done" /\ installed = {"xlrd"}
    /\ exists(excel_files[1]) /\ disk[excel_files[1]] = <<"corrupt">>
    /\ printed("Error", excel_files[1])
    /\ csv_of(2) \in DOMAIN disk

\* the decimal numerals of the counter
numeral == <<"1", "2", "3", "4", "5", "6", "7", "8", "9">>

\* the slides that carry the class 'active'
active_slides == {i \in DOMAIN classList : "active" \in classList[i]}

\* the inline script of the page has run
initialized == script = "powerpoint_style_report" /\ pc = "ready"

\* C12: once the page is initialized, whatever was clicked and pressed,
\* currentSlide is one of 0..8 (there are nine slides), the one slide that
\* carries 'active' is slide currentSlide, and the counter shows
\* currentSlide + 1 of 9.
C12_OneActiveSlide ==
    initialized =>
        /\ totalSlides = 9
        /\ currentSlide \in 0..(totalSlides - 1)
        /\ active_slides = {currentSlide}
        /\ current_slide_text = numeral[currentSlide + 1]
        /\ total_slides_text = numeral[totalSlides]

\* the fifth slide is shown after a press of the space bar
C12_Witness ==
    /\ initialized /\ event = " "
    /\ currentSlide = 4 /\ active_slides = {4} /\ current_slide_text = "5"

\* the events that ask for the next and for the previous slide
next_events == {"click nextBtn", "ArrowRight", " "}
prev_events == {"click prevBtn", "ArrowLeft"}

\* C13: navigation does not wrap. A NEXT on the last slide and a PREV on the
\* first leave currentSlide, the active slide and the counter as they are;
\* every other NEXT moves currentSlide up by exactly one and every other PREV
\* down by exactly one.
C13_NoWrap ==
    [][(initialized /\ n_events' = n_events + 1) =>
          /\ event' \in next_events =>
                IF currentSlide = totalSlides - 1
                THEN UNCHANGED <<currentSlide, classList, current_slide_text>>
                ELSE currentSlide' = currentSlide + 1
          /\ event' \in prev_events =>
                IF currentSlide = 0
                THEN UNCHANGED <<currentSlide, classList, current_slide_text>>
                ELSE currentSlide' = currentSlide - 1]_vars

\* the one event since initialization was ArrowLeft, pressed on the first
\* slide, and the first slide is still shown
C13_Witness ==
    /\ initialized /\ n_events = 1 /\ event = "ArrowLeft"
    /\ currentSlide = 0 /\ active_slides = {0} /\ current_slide_text = "1"

\* C14: in every state after initialization PREV is disabled exactly when
\* the first slide is shown and NEXT exactly when the last slide is shown.
C14_ButtonsDisabledAtEnds ==
    initialized =>
        /\ prevBtn_disabled = (currentSlide = 0)
        /\ nextBtn_disabled = (currentSlide = totalSlides - 1)

\* the last slide is shown: NEXT is disabled and PREV is not
C14_Witness ==
    /\ initialized /\ currentSlide = totalSlides - 1
    /\ nextBtn_disabled /\ ~prevBtn_disabled

====
